---------------------------- MODULE Spec2Model ----------------------------
(***************************************************************************)
(* Virtual memory simulator: page table, TLB, five replacement policies    *)
(* and the address translator that ties them together.                     *)
(*                                                                         *)
(* Python objects are records, Python methods are operators that take the  *)
(* object and return the object after the call together with the value     *)
(* returned.  Python dicts and OrderedDicts are sequences of [k, v]        *)
(* records in insertion order, Python lists are sequences (index 0 of the  *)
(* list is index 1 of the sequence).                                       *)
(***************************************************************************)
EXTENDS Integers, Sequences, FiniteSets, TLC

(* ------------------------------ bounds --------------------------------- *)

\* translate calls made on one simulator in the free-running specification
MaxAccesses == 4
\* calls made on a replacement algorithm object used on its own
MaxCalls == 6
\* calls made on a TLB object used on its own
MaxTlbCalls == 5
\* length of the reference strings replayed by run_trace
MaxTraceLen == 5

\* constructor arguments the specifications draw from
PageCounts == {3}
PageSizes == {2}
FrameCounts == {1, 2}
TlbSizes == {1, 2}

\* Python's None (a value no page, frame or address takes)
None == -99

AlgorithmNames == {"FIFO", "LRU", "LFU", "Optimal", "Clock"}

(* --------------------------- Python helpers ---------------------------- *)

\* key in dict
DictHas(d, key) == \E j \in 1..Len(d) : d[j].k = key

DictIdx(d, key) == CHOOSE j \in 1..Len(d) : d[j].k = key

\* dict[key]
DictGet(d, key) == d[DictIdx(d, key)].v

\* dict[key] = val: an existing key keeps its position, a new key goes last
DictSet(d, key, val) ==
    IF DictHas(d, key)
    THEN [d EXCEPT ![DictIdx(d, key)].v = val]
    ELSE Append(d, [k |-> key, v |-> val])

\* del dict[key]
DictDel(d, key) == SelectSeq(d, LAMBDA e : e.k # key)

DictKeys(d) == {d[j].k : j \in 1..Len(d)}

\* x in list
ListHas(s, x) == \E j \in 1..Len(s) : s[j] = x

\* list.index(x), as a sequence index
ListIndex(s, x) == CHOOSE j \in 1..Len(s) : s[j] = x /\ \A m \in 1..(j-1) : s[m] # x

\* list.remove(x): drops the first occurrence
ListRemove(s, x) ==
    LET j == ListIndex(s, x)
    IN  SubSeq(s, 1, j-1) \o SubSeq(s, j+1, Len(s))

ListSet(s) == {s[j] : j \in 1..Len(s)}

\* min(dict, key=dict.get): the first key, in iteration order, of least value
MinKeyByValue(d) ==
    LET j == CHOOSE n \in 1..Len(d) :
                 /\ \A m \in 1..Len(d) : d[n].v <= d[m].v
                 /\ \A m \in 1..(n-1) : d[m].v > d[n].v
    IN  d[j].k

(* ------------------------------ page table ----------------------------- *)

PageTableEntry ==
    [valid |-> FALSE, frame_number |-> None, referenced |-> FALSE,
     modified |-> FALSE, last_access_time |-> 0, access_count |-> 0]

PageTable(num_pages) ==
    [num_pages |-> num_pages, entries |-> [p \in 0..(num_pages-1) |-> PageTableEntry]]

\* self.entries[page_number]: a Python list accepts the indices -len..len-1
EntryInRange(pt, page_number) ==
    page_number >= -pt.num_pages /\ page_number < pt.num_pages

EntryIndex(pt, page_number) ==
    IF page_number >= 0 THEN page_number ELSE pt.num_pages + page_number

is_valid(pt, page_number) == pt.entries[EntryIndex(pt, page_number)].valid

get_frame_number(pt, page_number) ==
    IF ~is_valid(pt, page_number)
    THEN None
    ELSE pt.entries[EntryIndex(pt, page_number)].frame_number

\* set_frame as it would be if it stored the frame and left valid unset
set_frame_NoValid(pt, page_number, frame_number) ==
    [pt EXCEPT !.entries[EntryIndex(pt, page_number)].frame_number = frame_number]

set_frame(pt, page_number, frame_number) ==
    [pt EXCEPT !.entries[EntryIndex(pt, page_number)].valid = TRUE,
               !.entries[EntryIndex(pt, page_number)].frame_number = frame_number]

\* invalidate as it would be if it put a fresh PageTableEntry in place
pt_invalidate_Reset(pt, page_number) ==
    [pt EXCEPT !.entries[EntryIndex(pt, page_number)] = PageTableEntry]

\* invalidate as it would be if it cleared the valid flag and left the frame
pt_invalidate_KeepFrame(pt, page_number) ==
    [pt EXCEPT !.entries[EntryIndex(pt, page_number)].valid = FALSE]

\* invalidate as it would be if it cleared the frame and left the valid flag
pt_invalidate_KeepValid(pt, page_number) ==
    [pt EXCEPT !.entries[EntryIndex(pt, page_number)].frame_number = None]

pt_invalidate(pt, page_number) ==
    [pt EXCEPT !.entries[EntryIndex(pt, page_number)].valid = FALSE,
               !.entries[EntryIndex(pt, page_number)].frame_number = None]

\* update_access as it would be if it counted writes only
update_access_CountsWrites(pt, page_number, time, is_write) ==
    LET e == pt.entries[EntryIndex(pt, page_number)]
    IN  [pt EXCEPT !.entries[EntryIndex(pt, page_number)] =
            [e EXCEPT !.referenced = TRUE,
                      !.last_access_time = time,
                      !.access_count = IF is_write THEN e.access_count + 1
                                       ELSE e.access_count,
                      !.modified = IF is_write THEN TRUE ELSE e.modified]]

update_access(pt, page_number, time, is_write) ==
    LET e == pt.entries[EntryIndex(pt, page_number)]
    IN  [pt EXCEPT !.entries[EntryIndex(pt, page_number)] =
            [e EXCEPT !.referenced = TRUE,
                      !.last_access_time = time,
                      !.access_count = e.access_count + 1,
                      !.modified = IF is_write THEN TRUE ELSE e.modified]]

(* --------------------------------- TLB --------------------------------- *)

TLB(size) == [size |-> size, cache |-> <<>>, hits |-> 0, misses |-> 0]

\* OrderedDict.move_to_end(key)
MoveToEnd(d, key) == Append(DictDel(d, key), [k |-> key, v |-> DictGet(d, key)])

\* lookup as it would be without move_to_end
tlb_lookup_NoPromote(tlb, page_number) ==
    IF DictHas(tlb.cache, page_number)
    THEN [tlb |-> [tlb EXCEPT !.hits = tlb.hits + 1],
          result |-> DictGet(tlb.cache, page_number)]
    ELSE [tlb |-> [tlb EXCEPT !.misses = tlb.misses + 1], result |-> None]

tlb_lookup(tlb, page_number) ==
    IF DictHas(tlb.cache, page_number)
    THEN [tlb |-> [tlb EXCEPT !.hits = tlb.hits + 1,
                              !.cache = MoveToEnd(tlb.cache, page_number)],
          result |-> DictGet(tlb.cache, page_number)]
    ELSE [tlb |-> [tlb EXCEPT !.misses = tlb.misses + 1], result |-> None]

\* popitem(last=False) on an empty OrderedDict raises KeyError
tlb_insert_raises(tlb, page_number) ==
    ~DictHas(tlb.cache, page_number) /\ Len(tlb.cache) >= tlb.size /\ Len(tlb.cache) = 0

\* insert as it would be with popitem(last=True): the newest entry goes
tlb_insert_EvictNewest(tlb, page_number, frame_number) ==
    IF DictHas(tlb.cache, page_number)
    THEN [tlb EXCEPT !.cache = MoveToEnd(tlb.cache, page_number)]
    ELSE LET kept == IF Len(tlb.cache) >= tlb.size
                     THEN SubSeq(tlb.cache, 1, Len(tlb.cache) - 1)
                     ELSE tlb.cache
         IN  [tlb EXCEPT !.cache = Append(kept, [k |-> page_number, v |-> frame_number])]

\* insert as it would be if a full cache kept its oldest entry
tlb_insert_NoEvict(tlb, page_number, frame_number) ==
    IF DictHas(tlb.cache, page_number)
    THEN [tlb EXCEPT !.cache = MoveToEnd(tlb.cache, page_number)]
    ELSE [tlb EXCEPT !.cache = Append(@, [k |-> page_number, v |-> frame_number])]

\* insert as it would be if a cached page took the frame passed in
tlb_insert_Overwrite(tlb, page_number, frame_number) ==
    IF DictHas(tlb.cache, page_number)
    THEN [tlb EXCEPT !.cache = Append(DictDel(tlb.cache, page_number),
                                      [k |-> page_number, v |-> frame_number])]
    ELSE LET kept == IF Len(tlb.cache) >= tlb.size THEN Tail(tlb.cache) ELSE tlb.cache
         IN  [tlb EXCEPT !.cache = Append(kept, [k |-> page_number, v |-> frame_number])]

tlb_insert(tlb, page_number, frame_number) ==
    IF DictHas(tlb.cache, page_number)
    THEN [tlb EXCEPT !.cache = MoveToEnd(tlb.cache, page_number)]
    ELSE LET kept == IF Len(tlb.cache) >= tlb.size THEN Tail(tlb.cache) ELSE tlb.cache
         IN  [tlb EXCEPT !.cache = Append(kept, [k |-> page_number, v |-> frame_number])]

\* invalidate as it would be if it removed nothing
tlb_invalidate_Skip(tlb, page_number) == tlb

tlb_invalidate(tlb, page_number) ==
    IF DictHas(tlb.cache, page_number)
    THEN [tlb EXCEPT !.cache = DictDel(tlb.cache, page_number)]
    ELSE tlb

(* ------------------------ replacement algorithms ----------------------- *)

\* float('inf'): larger than every index of a reference string
Infinity == 1000000

\* One record shape for the five classes; a class leaves the fields of the
\* other classes at their empty values.
PageReplacementAlgorithm(name, num_frames, reference_string) ==
    [name |-> name, num_frames |-> num_frames, frames |-> <<>>,
     queue |-> <<>>,
     access_times |-> <<>>, access_counts |-> <<>>,
     reference_string |-> reference_string, current_index |-> 0,
     reference_bits |-> <<>>, clock_hand |-> 0]

is_page_in_memory(a, page_number) == ListHas(a.frames, page_number)

\* get_victim on an empty frames list raises (IndexError / ValueError);
\* Optimal's returns None there, and access_page then raises on remove(None)
get_victim_raises(a) == Len(a.frames) = 0

\* what access_page returns, with the object after the call
AccessResult(a, page_fault, victim) ==
    [alg |-> a, page_fault |-> page_fault, victim |-> victim]

(* FIFO *)

\* get_victim as it would be if it took the newest page of the queue
FIFO_get_victim_Newest(a) == a.queue[Len(a.queue)]

FIFO_get_victim(a) == a.queue[1]

\* the appends and the return of FIFO.access_page
FIFO_admit(a, page_number, victim) ==
    AccessResult([a EXCEPT !.frames = Append(@, page_number),
                           !.queue = Append(@, page_number)], TRUE, victim)

\* the branch of FIFO.access_page taken when the frames are full
FIFO_replace(a, page_number, victim) ==
    FIFO_admit([a EXCEPT !.frames = ListRemove(@, victim),
                         !.queue = ListRemove(@, victim)], page_number, victim)

FIFO_access_page(a, page_number, time) ==
    IF is_page_in_memory(a, page_number)
    THEN AccessResult(a, FALSE, None)
    ELSE IF Len(a.frames) >= a.num_frames
    THEN FIFO_replace(a, page_number, FIFO_get_victim(a))
    ELSE FIFO_admit(a, page_number, None)

(* LRU *)

\* get_victim as it would be if it took the first page of the frames list
LRU_get_victim_First(a) == a.frames[1]

LRU_get_victim(a) == MinKeyByValue(a.access_times)

\* "Update access time" and the return of LRU.access_page
LRU_record(a, page_number, time, page_fault, victim) ==
    AccessResult([a EXCEPT !.access_times = DictSet(@, page_number, time)],
                 page_fault, victim)

\* the branch of LRU.access_page taken when the frames are full
LRU_replace(a, page_number, time, victim) ==
    LRU_record([a EXCEPT !.frames = Append(ListRemove(@, victim), page_number),
                         !.access_times = DictDel(@, victim)],
               page_number, time, TRUE, victim)

LRU_access_page(a, page_number, time) ==
    IF is_page_in_memory(a, page_number)
    THEN LRU_record(a, page_number, time, FALSE, None)
    ELSE IF Len(a.frames) >= a.num_frames
    THEN LRU_replace(a, page_number, time, LRU_get_victim(a))
    ELSE LRU_record([a EXCEPT !.frames = Append(@, page_number)],
                    page_number, time, TRUE, None)

(* LFU *)

\* get_victim as it would be without the tie-break on access times
LFU_get_victim_NoTieBreak(a) ==
    LET counts    == a.access_counts
        min_count == CHOOSE c \in {counts[j].v : j \in 1..Len(counts)} :
                         \A j \in 1..Len(counts) : c <= counts[j].v
    IN  SelectSeq(counts, LAMBDA e : e.v = min_count)[1].k

LFU_get_victim(a) ==
    LET counts     == a.access_counts
        min_count  == CHOOSE c \in {counts[j].v : j \in 1..Len(counts)} :
                          \A j \in 1..Len(counts) : c <= counts[j].v
        candidates == SelectSeq(counts, LAMBDA e : e.v = min_count)
    IN  IF Len(candidates) = 1
        THEN candidates[1].k
        ELSE LET j == CHOOSE n \in 1..Len(candidates) :
                          /\ \A m \in 1..Len(candidates) :
                                 DictGet(a.access_times, candidates[n].k)
                                     <= DictGet(a.access_times, candidates[m].k)
                          /\ \A m \in 1..(n-1) :
                                 DictGet(a.access_times, candidates[m].k)
                                     > DictGet(a.access_times, candidates[n].k)
             IN  candidates[j].k

\* "Update access count and time" and the return of LFU.access_page
LFU_record(a, page_number, time, page_fault, victim) ==
    AccessResult([a EXCEPT !.access_counts =
                               DictSet(@, page_number, DictGet(@, page_number) + 1),
                           !.access_times = DictSet(@, page_number, time)],
                 page_fault, victim)

\* the append and the count reset of a faulting LFU.access_page
LFU_admit(a, page_number, time, victim) ==
    LFU_record([a EXCEPT !.frames = Append(@, page_number),
                         !.access_counts = DictSet(@, page_number, 0)],
               page_number, time, TRUE, victim)

\* the branch of LFU.access_page taken when the frames are full
LFU_replace(a, page_number, time, victim) ==
    LFU_admit([a EXCEPT !.frames = ListRemove(@, victim),
                        !.access_counts = DictDel(@, victim),
                        !.access_times = DictDel(@, victim)],
              page_number, time, victim)

LFU_access_page(a, page_number, time) ==
    IF is_page_in_memory(a, page_number)
    THEN LFU_record(a, page_number, time, FALSE, None)
    ELSE IF Len(a.frames) >= a.num_frames
    THEN LFU_replace(a, page_number, time, LFU_get_victim(a))
    ELSE LFU_admit(a, page_number, time, None)

(* Optimal *)

\* the inner for loop of Optimal.get_victim: the first index at or after
\* current_index that holds the page, inf when there is none
NextUse(reference_string, current_index, page) ==
    LET uses == {n \in current_index..(Len(reference_string)-1) :
                     reference_string[n+1] = page}
    IN  IF uses = {} THEN Infinity
        ELSE CHOOSE n \in uses : \A m \in uses : n <= m

\* the outer for loop of Optimal.get_victim from list position j on
RECURSIVE OptimalScan(_, _, _, _)
OptimalScan(a, j, farthest_use, victim) ==
    IF j > Len(a.frames)
    THEN victim
    ELSE IF NextUse(a.reference_string, a.current_index, a.frames[j]) > farthest_use
    THEN OptimalScan(a, j+1,
                     NextUse(a.reference_string, a.current_index, a.frames[j]),
                     a.frames[j])
    ELSE OptimalScan(a, j+1, farthest_use, victim)

Optimal_get_victim(a) == OptimalScan(a, 1, -1, None)

\* "self.current_index += 1" and the return of Optimal.access_page
Optimal_advance(a, page_fault, victim) ==
    AccessResult([a EXCEPT !.current_index = @ + 1], page_fault, victim)

\* the branch as it would be if it left the victim in the frames list
Optimal_replace_KeepVictim(a, page_number, victim) ==
    Optimal_advance([a EXCEPT !.frames = Append(@, page_number)], TRUE, victim)

\* the branch of Optimal.access_page taken when the frames are full
Optimal_replace(a, page_number, victim) ==
    Optimal_advance([a EXCEPT !.frames = Append(ListRemove(@, victim), page_number)],
                    TRUE, victim)

Optimal_access_page(a, page_number, time) ==
    IF is_page_in_memory(a, page_number)
    THEN Optimal_advance(a, FALSE, None)
    ELSE IF Len(a.frames) >= a.num_frames
    THEN Optimal_replace(a, page_number, Optimal_get_victim(a))
    ELSE Optimal_advance([a EXCEPT !.frames = Append(@, page_number)], TRUE, None)

(* Clock *)

\* the while loop of Clock.get_victim; gives the object (bits cleared, hand
\* moved) with the victim
\* get_victim as it would be if the hand stopped on the victim's slot
RECURSIVE Clock_get_victim_HandStays(_)
Clock_get_victim_HandStays(a) ==
    IF DictGet(a.reference_bits, a.frames[a.clock_hand + 1]) = 0
    THEN [alg |-> a, victim |-> a.frames[a.clock_hand + 1]]
    ELSE Clock_get_victim_HandStays(
             [a EXCEPT !.reference_bits = DictSet(@, a.frames[a.clock_hand + 1], 0),
                       !.clock_hand = (@ + 1) % Len(a.frames)])

RECURSIVE Clock_get_victim(_)
Clock_get_victim(a) ==
    IF DictGet(a.reference_bits, a.frames[a.clock_hand + 1]) = 0
    THEN [alg |-> [a EXCEPT !.clock_hand = (@ + 1) % Len(a.frames)],
          victim |-> a.frames[a.clock_hand + 1]]
    ELSE Clock_get_victim(
             [a EXCEPT !.reference_bits = DictSet(@, a.frames[a.clock_hand + 1], 0),
                       !.clock_hand = (@ + 1) % Len(a.frames)])

\* the slots get_victim's loop may inspect before it is taken not to return
SweepFuel(a) == 2 * a.num_frames + 2

\* the loop as it would be if a page given its second chance kept its bit
RECURSIVE Clock_sweep_NoClear(_, _, _)
Clock_sweep_NoClear(a, fuel, inspected) ==
    IF fuel = 0
    THEN [inspected |-> inspected, returned |-> FALSE, clock_hand |-> a.clock_hand]
    ELSE IF DictGet(a.reference_bits, a.frames[a.clock_hand + 1]) = 0
    THEN [inspected |-> Append(inspected, a.clock_hand), returned |-> TRUE,
          clock_hand |-> (a.clock_hand + 1) % Len(a.frames)]
    ELSE Clock_sweep_NoClear([a EXCEPT !.clock_hand = (@ + 1) % Len(a.frames)],
                             fuel - 1, Append(inspected, a.clock_hand))

\* The iterations of get_victim's "while True" loop, one per slot inspected:
\* the values clock_hand had when frames[clock_hand] was read, whether the
\* loop returned within fuel iterations, and the hand it left.
RECURSIVE Clock_sweep(_, _, _)
Clock_sweep(a, fuel, inspected) ==
    IF fuel = 0
    THEN [inspected |-> inspected, returned |-> FALSE, clock_hand |-> a.clock_hand]
    ELSE IF DictGet(a.reference_bits, a.frames[a.clock_hand + 1]) = 0
    THEN [inspected |-> Append(inspected, a.clock_hand), returned |-> TRUE,
          clock_hand |-> (a.clock_hand + 1) % Len(a.frames)]
    ELSE Clock_sweep([a EXCEPT !.reference_bits =
                                  DictSet(@, a.frames[a.clock_hand + 1], 0),
                               !.clock_hand = (@ + 1) % Len(a.frames)],
                     fuel - 1, Append(inspected, a.clock_hand))

\* "Set reference bit" and the return of Clock.access_page
Clock_mark(a, page_number, page_fault, victim) ==
    AccessResult([a EXCEPT !.reference_bits = DictSet(@, page_number, 1)],
                 page_fault, victim)

\* that branch as it would be if the victim were removed from the array and
\* the new page appended, as the other policies do
Clock_replace_Append(gv, page_number) ==
    Clock_mark([gv.alg EXCEPT
                  !.frames = Append(ListRemove(@, gv.victim), page_number),
                  !.reference_bits = DictDel(@, gv.victim)],
               page_number, TRUE, gv.victim)

\* the branch of Clock.access_page taken when the frames are full; gv is
\* what get_victim gave
Clock_replace(gv, page_number) ==
    Clock_mark([gv.alg EXCEPT
                  !.frames[ListIndex(gv.alg.frames, gv.victim)] = page_number,
                  !.reference_bits = DictDel(@, gv.victim)],
               page_number, TRUE, gv.victim)

Clock_access_page(a, page_number, time) ==
    IF is_page_in_memory(a, page_number)
    THEN Clock_mark(a, page_number, FALSE, None)
    ELSE IF Len(a.frames) >= a.num_frames
    THEN Clock_replace(Clock_get_victim(a), page_number)
    ELSE Clock_mark([a EXCEPT !.frames = Append(@, page_number)],
                    page_number, TRUE, None)

\* self.algorithm.access_page(...): dispatch on the class of the object
access_page(a, page_number, time) ==
    CASE a.name = "FIFO"    -> FIFO_access_page(a, page_number, time)
      [] a.name = "LRU"     -> LRU_access_page(a, page_number, time)
      [] a.name = "LFU"     -> LFU_access_page(a, page_number, time)
      [] a.name = "Optimal" -> Optimal_access_page(a, page_number, time)
      [] a.name = "Clock"   -> Clock_access_page(a, page_number, time)

(* ------------------------------ simulator ------------------------------ *)

\* VirtualMemorySimulator.__init__ for a known algorithm name (and, for
\* Optimal, a reference string)
VirtualMemorySimulator(num_pages, num_frames, page_size, tlb_size, algorithm_name, reference_string) ==
    [num_pages |-> num_pages, num_frames |-> num_frames, page_size |-> page_size,
     page_table |-> PageTable(num_pages),
     tlb |-> TLB(tlb_size),
     algorithm |-> PageReplacementAlgorithm(algorithm_name, num_frames,
                      IF algorithm_name = "Optimal" THEN reference_string ELSE <<>>),
     algorithm_name |-> algorithm_name,
     page_faults |-> 0, memory_accesses |-> 0, tlb_hits |-> 0, tlb_misses |-> 0,
     current_time |-> 0,
     free_frames |-> [j \in 1..num_frames |-> j - 1],
     page_to_frame |-> <<>>]

\* What _handle_page_fault gives: the simulator after the call, the frame
\* returned, the local victim_page, and whether the call raised (the
\* simulator then is the one the exception leaves behind).
FaultResult(s, raised, frame_number, victim) ==
    [sim |-> s, raised |-> raised, frame_number |-> frame_number, victim |-> victim]

\* "Load page into frame"
LoadPage(s, page_number, frame_number, victim) ==
    FaultResult([s EXCEPT !.page_table = set_frame(@, page_number, frame_number),
                          !.page_to_frame = DictSet(@, page_number, frame_number)],
                FALSE, frame_number, victim)

\* "Evict victim page", frame_number being page_to_frame[victim_page]
EvictVictim(s, page_number, victim_page, frame_number) ==
    LoadPage([s EXCEPT !.page_table = pt_invalidate(@, victim_page),
                       !.tlb = tlb_invalidate(@, victim_page),
                       !.page_to_frame = DictDel(@, victim_page)],
             page_number, frame_number, victim_page)

\* _handle_page_fault from the return of access_page on (r is what it gave)
AfterAccessPage(s, page_number, r) ==
    IF r.victim # None
    THEN IF ~DictHas(s.page_to_frame, r.victim) \/ ~EntryInRange(s.page_table, r.victim)
         THEN FaultResult([s EXCEPT !.algorithm = r.alg], TRUE, None, r.victim)
         ELSE EvictVictim([s EXCEPT !.algorithm = r.alg], page_number, r.victim,
                          DictGet(s.page_to_frame, r.victim))
    ELSE IF Len(s.free_frames) = 0
         THEN FaultResult([s EXCEPT !.algorithm = r.alg], TRUE, None, None)
         ELSE LoadPage([s EXCEPT !.algorithm = r.alg, !.free_frames = Tail(@)],
                       page_number, Head(s.free_frames), None)

handle_page_fault(s, page_number, is_write) ==
    IF ~is_page_in_memory(s.algorithm, page_number)
          /\ Len(s.algorithm.frames) >= s.algorithm.num_frames
          /\ get_victim_raises(s.algorithm)
    THEN FaultResult(s, TRUE, None, None)
    ELSE AfterAccessPage(s, page_number,
                         access_page(s.algorithm, page_number, s.current_time))

\* what a translate_address call that raised leaves behind
Raised(s, page_number, victim) ==
    [sim |-> s, raised |-> TRUE, page_number |-> page_number,
     physical_address |-> None, page_fault |-> FALSE, tlb_hit |-> FALSE,
     victim |-> victim]

\* the tail of translate_address as it would be if a reference that hit were
\* reported to the replacement policy too
Returned_PolicyOnHit(s, page_number, frame_number, offset, is_write, page_fault, tlb_hit, victim) ==
    [sim |-> [s EXCEPT !.page_table =
                 update_access(@, page_number, s.current_time, is_write),
                       !.algorithm =
                 IF page_fault THEN @
                 ELSE access_page(@, page_number, s.current_time).alg],
     raised |-> FALSE, page_number |-> page_number,
     physical_address |-> frame_number * s.page_size + offset,
     page_fault |-> page_fault, tlb_hit |-> tlb_hit, victim |-> victim]

\* the tail of translate_address: update_access, the physical address, return
Returned(s, page_number, frame_number, offset, is_write, page_fault, tlb_hit, victim) ==
    [sim |-> [s EXCEPT !.page_table =
                 update_access(@, page_number, s.current_time, is_write)],
     raised |-> FALSE, page_number |-> page_number,
     physical_address |-> frame_number * s.page_size + offset,
     page_fault |-> page_fault, tlb_hit |-> tlb_hit, victim |-> victim]

\* "Update TLB" and the tail, on either TLB-miss path
UpdateTlb(s, page_number, frame_number, offset, is_write, page_fault, victim) ==
    IF tlb_insert_raises(s.tlb, page_number)
    THEN Raised(s, page_number, victim)
    ELSE Returned([s EXCEPT !.tlb = tlb_insert(@, page_number, frame_number)],
                  page_number, frame_number, offset, is_write, page_fault, FALSE, victim)

\* translate_address from the return of _handle_page_fault on (h is what it gave)
AfterPageFault(h, page_number, offset, is_write) ==
    IF h.raised
    THEN Raised(h.sim, page_number, h.victim)
    ELSE UpdateTlb(h.sim, page_number, h.frame_number, offset, is_write, TRUE, h.victim)

\* translate_address from the return of tlb.lookup on (frame_number is what
\* it gave, s has the TLB as the lookup left it)
AfterLookup(s, page_number, offset, is_write, frame_number) ==
    IF frame_number # None
    THEN Returned(s, page_number, frame_number, offset, is_write, FALSE, TRUE, None)
    ELSE IF ~EntryInRange(s.page_table, page_number)
    THEN Raised(s, page_number, None)
    ELSE IF ~is_valid(s.page_table, page_number)
    THEN AfterPageFault(handle_page_fault([s EXCEPT !.page_faults = @ + 1],
                                          page_number, is_write),
                        page_number, offset, is_write)
    ELSE UpdateTlb(s, page_number, get_frame_number(s.page_table, page_number),
                   offset, is_write, FALSE, None)

\* tlb.lookup and the storing of what it did to the TLB
Lookup(s, page_number, offset, is_write, lk) ==
    AfterLookup([s EXCEPT !.tlb = lk.tlb], page_number, offset, is_write, lk.result)

\* translate_address as it would be if it did not advance current_time
translate_address_NoClock(s, virtual_address, is_write) ==
    Lookup([s EXCEPT !.memory_accesses = @ + 1],
           virtual_address \div s.page_size, virtual_address % s.page_size, is_write,
           tlb_lookup(s.tlb, virtual_address \div s.page_size))

translate_address(s, virtual_address, is_write) ==
    Lookup([s EXCEPT !.memory_accesses = @ + 1, !.current_time = @ + 1],
           virtual_address \div s.page_size, virtual_address % s.page_size, is_write,
           tlb_lookup(s.tlb, virtual_address \div s.page_size))

(* ------------------------- state and behaviours ------------------------ *)

VARIABLES
    sim,               \* the VirtualMemorySimulator object
    ret,               \* the last translate_address call: arguments and outcome
    reference_string,  \* run_trace: the reference string being replayed
    i,                 \* run_trace: index of the next entry (enumerate's i)
    plan,              \* the configurations a comparison loop runs, in order
    results,           \* the statistics the loop has collected so far
    algorithm,         \* a replacement algorithm object used on its own
    buffer,            \* a TLB object used on its own
    out                \* the last call made on such an object, or of __init__

vars == <<sim, ret, reference_string, i, plan, results, algorithm, buffer, out>>

NoCall ==
    [called |-> FALSE, virtual_address |-> None, is_write |-> FALSE,
     raised |-> FALSE, page_number |-> None, physical_address |-> None,
     page_fault |-> FALSE, tlb_hit |-> FALSE, victim |-> None]

\* no call has been made on an object used on its own
NoOp ==
    [op |-> "none", page_number |-> None, arg |-> None, raised |-> FALSE,
     page_fault |-> FALSE, result |-> None, calls |-> 0]

\* the simulator's behaviours use no object on its own
NoUnit == algorithm = None /\ buffer = None /\ out = NoOp

\* the record of a call: its arguments with what translate_address gave back
Call(virtual_address, is_write, t) ==
    [called |-> TRUE, virtual_address |-> virtual_address, is_write |-> is_write,
     raised |-> t.raised, page_number |-> t.page_number,
     physical_address |-> t.physical_address,
     page_fault |-> t.page_fault, tlb_hit |-> t.tlb_hit, victim |-> t.victim]

\* the call returns or raises: t is what translate_address gave
Called(virtual_address, is_write, t) ==
    /\ sim' = t.sim
    /\ ret' = Call(virtual_address, is_write, t)

\* reference strings an Optimal simulator is constructed with when the
\* caller then translates addresses of its own choosing
OptimalStrings == {<<0, 1, 2>>, <<1, 0, 1, 2>>}

\* Every sequence over S of length at most n
RECURSIVE SeqsUpTo(_, _)
SeqsUpTo(S, n) ==
    IF n = 0 THEN {<<>>}
    ELSE LET shorter == SeqsUpTo(S, n - 1)
         IN  shorter \cup {Append(q, x) : q \in {r \in shorter : Len(r) = n - 1}, x \in S}

(* Free-running use: a simulator is constructed and the caller makes        *)
(* translate_address calls on in-range addresses, reads and writes.        *)
Init ==
    /\ \E num_pages \in PageCounts, num_frames \in FrameCounts,
          page_size \in PageSizes, tlb_size \in TlbSizes,
          algorithm_name \in AlgorithmNames, rs \in OptimalStrings :
          sim = VirtualMemorySimulator(num_pages, num_frames, page_size, tlb_size,
                                       algorithm_name, rs)
    /\ ret = NoCall
    /\ reference_string = <<>>
    /\ i = 0
    /\ plan = <<>>
    /\ results = <<>>
    /\ NoUnit

Translate ==
    /\ sim.memory_accesses < MaxAccesses
    /\ \E virtual_address \in 0..(sim.num_pages * sim.page_size - 1),
          is_write \in BOOLEAN :
          Called(virtual_address, is_write,
                 translate_address(sim, virtual_address, is_write))
    /\ UNCHANGED <<reference_string, i, plan, results, algorithm, buffer, out>>

Next == Translate

Spec == Init /\ [][Next]_vars

(* Unchecked use: translate_address takes any integer, so the caller may   *)
(* also pass addresses whose page number lies outside [0, num_pages).  A   *)
(* call that raises leaves the object as the exception found it, and the   *)
(* caller may go on using it.                                              *)
AnyPageCounts == {2}

InitAny ==
    /\ \E num_pages \in AnyPageCounts, num_frames \in FrameCounts,
          page_size \in PageSizes, tlb_size \in TlbSizes,
          algorithm_name \in AlgorithmNames, rs \in OptimalStrings :
          sim = VirtualMemorySimulator(num_pages, num_frames, page_size, tlb_size,
                                       algorithm_name, rs)
    /\ ret = NoCall
    /\ reference_string = <<>>
    /\ i = 0
    /\ plan = <<>>
    /\ results = <<>>
    /\ NoUnit

\* page numbers below and above the page table, one past each end included
OutOfRangePages(num_pages) == ((-(num_pages + 1))..(-1)) \cup {num_pages}

\* (the first address of each such page, read)
TranslateOutOfRange ==
    /\ sim.memory_accesses < MaxAccesses
    /\ \E page_number \in OutOfRangePages(sim.num_pages) :
          Called(page_number * sim.page_size, FALSE,
                 translate_address(sim, page_number * sim.page_size, FALSE))
    /\ UNCHANGED <<reference_string, i, plan, results, algorithm, buffer, out>>

NextAny == Translate \/ TranslateOutOfRange

SpecAny == InitAny /\ [][NextAny]_vars

(* The same use restricted to the calls that return: addresses of the      *)
(* pages of the table and of the negative page numbers Python's list       *)
(* indexing accepts.                                                       *)
AliasedPages(num_pages) == (-num_pages)..(-1)

TranslateAliased ==
    /\ sim.memory_accesses < MaxAccesses
    /\ \E page_number \in AliasedPages(sim.num_pages), is_write \in BOOLEAN :
          Called(page_number * sim.page_size, is_write,
                 translate_address(sim, page_number * sim.page_size, is_write))
    /\ UNCHANGED <<reference_string, i, plan, results, algorithm, buffer, out>>

NextReturning == Translate \/ TranslateAliased

SpecReturning == InitAny /\ [][NextReturning]_vars

(* Trace replay: the loops of the test suite.  For each configuration of   *)
(* the plan in turn a simulator is constructed, run_trace replays the      *)
(* reference string through it, and its statistics are collected.          *)

\* the reference string of test_fifo_basic, test_lru_basic, test_clock_algorithm
TestTrace == <<1, 2, 3, 4, 1, 2, 5, 1, 2, 3, 4, 5>>

TracePages == 0..2
TraceNumPages == 6
TraceFrameCounts == {1, 2, 3}
TraceInputs == SeqsUpTo(TracePages, MaxTraceLen) \cup {TestTrace}

Config(algorithm_name, num_frames, tlb_size) ==
    [algorithm_name |-> algorithm_name, num_pages |-> TraceNumPages,
     num_frames |-> num_frames, tlb_size |-> tlb_size]

\* the constructor arguments of test_fifo_basic, test_lru_basic and
\* test_clock_algorithm
TestNumPages == 10
TestNumFrames == 3
TestTlbSize == 4

TestConfig(algorithm_name) ==
    [algorithm_name |-> algorithm_name, num_pages |-> TestNumPages,
     num_frames |-> TestNumFrames, tlb_size |-> TestTlbSize]

\* test_optimal_best: Optimal and another algorithm on the same frame count;
\* test_increasing_frames_reduces_faults: LRU on growing frame counts;
\* the single-configuration tests: one run of the test configuration
Plans ==
    {<<Config("Optimal", nf, ts), Config(other, nf, ts)>> :
        nf \in FrameCounts, ts \in TlbSizes, other \in AlgorithmNames \ {"Optimal"}}
    \cup
    {<<Config("LRU", nf, ts), Config("LRU", nf + 1, ts)>> :
        nf \in TraceFrameCounts, ts \in TlbSizes}
    \cup
    {<<TestConfig(algorithm_name)>> : algorithm_name \in AlgorithmNames}

Construct(c, rs) ==
    VirtualMemorySimulator(c.num_pages, c.num_frames, CHOOSE ps \in PageSizes : TRUE,
                           c.tlb_size, c.algorithm_name, rs)

\* get_statistics as it would be if it read the simulator's own tlb_hits and
\* tlb_misses fields
get_statistics_OwnCounters(s) ==
    [algorithm |-> s.algorithm_name, total_accesses |-> s.memory_accesses,
     page_faults |-> s.page_faults, tlb_hits |-> s.tlb_hits,
     tlb_misses |-> s.tlb_misses]

\* get_statistics: the counters of the snapshot
get_statistics(s) ==
    [algorithm |-> s.algorithm_name, total_accesses |-> s.memory_accesses,
     page_faults |-> s.page_faults, tlb_hits |-> s.tlb.hits,
     tlb_misses |-> s.tlb.misses]

InitTrace ==
    /\ reference_string \in TraceInputs
    /\ plan \in Plans
    /\ results = <<>>
    /\ sim = Construct(plan[1], reference_string)
    /\ ret = NoCall
    /\ i = 0
    /\ NoUnit

RunDone == i = Len(reference_string)

AllDone == Len(results) = Len(plan)

\* one iteration of run_trace's loop (write_operations left at its default)
RunTraceStep ==
    /\ ~RunDone
    /\ ~AllDone
    /\ Called(reference_string[i + 1] * sim.page_size, FALSE,
              translate_address(sim, reference_string[i + 1] * sim.page_size, FALSE))
    /\ i' = i + 1
    /\ UNCHANGED <<reference_string, plan, results, algorithm, buffer, out>>

\* run_trace has returned: the statistics are stored and the loop moves on
\* to construct the simulator of the next configuration
CollectStatistics ==
    /\ RunDone
    /\ ~AllDone
    /\ results' = Append(results, get_statistics(sim))
    /\ IF Len(results') < Len(plan)
       THEN /\ sim' = Construct(plan[Len(results') + 1], reference_string)
            /\ ret' = NoCall
            /\ i' = 0
       ELSE UNCHANGED <<sim, ret, i>>
    /\ UNCHANGED <<reference_string, plan, algorithm, buffer, out>>

NextTrace == RunTraceStep \/ CollectStatistics

SpecTrace == InitTrace /\ [][NextTrace]_vars

(* A replacement algorithm object used on its own: the caller constructs  *)
(* it and calls access_page and get_victim with pages and times of its     *)
(* choosing.                                                               *)

NoSim ==
    /\ sim = None /\ ret = NoCall /\ reference_string = <<>>
    /\ i = 0 /\ plan = <<>> /\ results = <<>>

UnitFrameCounts == {1, 2, 3}
UnitPages == 0..3
UnitTimes == 1..2

\* self.get_victim(): dispatch on the class of the object; gives the object
\* after the call (only Clock's changes) with the page returned
get_victim(a) ==
    CASE a.name = "FIFO"    -> [alg |-> a, victim |-> FIFO_get_victim(a)]
      [] a.name = "LRU"     -> [alg |-> a, victim |-> LRU_get_victim(a)]
      [] a.name = "LFU"     -> [alg |-> a, victim |-> LFU_get_victim(a)]
      [] a.name = "Optimal" -> [alg |-> a, victim |-> Optimal_get_victim(a)]
      [] a.name = "Clock"   -> Clock_get_victim(a)

InitPolicy ==
    /\ \E name \in AlgorithmNames, num_frames \in UnitFrameCounts,
          rs \in OptimalStrings :
          algorithm = PageReplacementAlgorithm(name, num_frames,
                          IF name = "Optimal" THEN rs ELSE <<>>)
    /\ buffer = None
    /\ out = NoOp
    /\ NoSim

\* access_page has returned: r is what it gave
Accessed(page_number, time, r) ==
    /\ algorithm' = r.alg
    /\ out' = [op |-> "access_page", page_number |-> page_number, arg |-> time,
               raised |-> FALSE, page_fault |-> r.page_fault, result |-> r.victim,
               calls |-> out.calls + 1]

AccessPage ==
    /\ out.calls < MaxCalls
    /\ \E page_number \in UnitPages, time \in UnitTimes :
          Accessed(page_number, time, access_page(algorithm, page_number, time))
    /\ UNCHANGED <<sim, ret, reference_string, i, plan, results, buffer>>

\* get_victim has returned: gv is what it gave
GotVictim(gv) ==
    /\ algorithm' = gv.alg
    /\ out' = [op |-> "get_victim", page_number |-> None, arg |-> None,
               raised |-> FALSE, page_fault |-> FALSE, result |-> gv.victim,
               calls |-> out.calls + 1]

\* a direct call of get_victim
GetVictim ==
    /\ out.calls < MaxCalls
    /\ IF get_victim_raises(algorithm) /\ algorithm.name # "Optimal"
       THEN /\ out' = [op |-> "get_victim", page_number |-> None, arg |-> None,
                       raised |-> TRUE, page_fault |-> FALSE, result |-> None,
                       calls |-> out.calls + 1]
            /\ UNCHANGED algorithm
       ELSE GotVictim(get_victim(algorithm))
    /\ UNCHANGED <<sim, ret, reference_string, i, plan, results, buffer>>

NextPolicy == AccessPage \/ GetVictim

SpecPolicy == InitPolicy /\ [][NextPolicy]_vars

(* A TLB object used on its own: the caller constructs it with a positive *)
(* size and calls lookup, insert and invalidate in any order.              *)

UnitTlbSizes == {1, 2, 3}
UnitFrames == 0..1

InitTlb ==
    /\ \E size \in UnitTlbSizes : buffer = TLB(size)
    /\ algorithm = None
    /\ out = NoOp
    /\ NoSim

\* the record of a call on the TLB
TlbCall(op, page_number, frame_number, result) ==
    [op |-> op, page_number |-> page_number, arg |-> frame_number,
     raised |-> FALSE, page_fault |-> FALSE, result |-> result,
     calls |-> out.calls + 1]

\* lookup has returned: lk is what it gave
LookedUp(page_number, lk) ==
    /\ buffer' = lk.tlb
    /\ out' = TlbCall("lookup", page_number, None, lk.result)

TlbLookup ==
    /\ out.calls < MaxTlbCalls
    /\ \E page_number \in UnitPages :
          LookedUp(page_number, tlb_lookup(buffer, page_number))
    /\ UNCHANGED <<sim, ret, reference_string, i, plan, results, algorithm>>

TlbInsert ==
    /\ out.calls < MaxTlbCalls
    /\ \E page_number \in UnitPages, frame_number \in UnitFrames :
          /\ ~tlb_insert_raises(buffer, page_number)
          /\ buffer' = tlb_insert(buffer, page_number, frame_number)
          /\ out' = TlbCall("insert", page_number, frame_number, None)
    /\ UNCHANGED <<sim, ret, reference_string, i, plan, results, algorithm>>

TlbInvalidate ==
    /\ out.calls < MaxTlbCalls
    /\ \E page_number \in UnitPages :
          /\ buffer' = tlb_invalidate(buffer, page_number)
          /\ out' = TlbCall("invalidate", page_number, None, None)
    /\ UNCHANGED <<sim, ret, reference_string, i, plan, results, algorithm>>

NextTlb == TlbLookup \/ TlbInsert \/ TlbInvalidate

SpecTlb == InitTlb /\ [][NextTlb]_vars

(* Construction: the caller passes __init__ any integers as sizes, any     *)
(* algorithm name, and a reference string or none.                         *)

ConfigSizes == (-1)..2
ConfigNames == AlgorithmNames \cup {"Random"}
\* the reference_string argument: <<>> when it is left at its default None,
\* <<rs>> when the list rs is supplied
ConfigStrings == {<<>>, << <<0, 1>> >>}

\* the two raise statements of __init__
init_raises(algorithm_name, rs) ==
    \/ algorithm_name = "Optimal" /\ rs = <<>>
    \/ algorithm_name \notin AlgorithmNames

InitConfig ==
    /\ sim = None
    /\ ret = NoCall
    /\ reference_string = <<>>
    /\ i = 0
    /\ plan = <<>>
    /\ results = <<>>
    /\ NoUnit

\* the record of a call of __init__ with the arguments a
InitCall(a, raised) ==
    [op |-> "__init__", page_number |-> None, arg |-> a, raised |-> raised,
     page_fault |-> FALSE, result |-> None, calls |-> 1]

\* VirtualMemorySimulator(...) with the arguments a: raises, or gives the object
New(a) ==
    IF init_raises(a.algorithm_name, a.reference_string)
    THEN /\ sim' = None
         /\ out' = InitCall(a, TRUE)
    ELSE /\ sim' = VirtualMemorySimulator(a.num_pages, a.num_frames, a.page_size,
                                          a.tlb_size, a.algorithm_name,
                                          IF a.reference_string = <<>> THEN <<>>
                                          ELSE a.reference_string[1])
         /\ out' = InitCall(a, FALSE)

Construction ==
    /\ out.op = "none"
    /\ \E num_pages \in ConfigSizes, num_frames \in ConfigSizes,
          page_size \in ConfigSizes, tlb_size \in ConfigSizes,
          algorithm_name \in ConfigNames, rs \in ConfigStrings :
          New([num_pages |-> num_pages, num_frames |-> num_frames,
               page_size |-> page_size, tlb_size |-> tlb_size,
               algorithm_name |-> algorithm_name, reference_string |-> rs])
    /\ UNCHANGED <<ret, reference_string, i, plan, results, algorithm, buffer>>

NextConfig == Construction

SpecConfig == InitConfig /\ [][NextConfig]_vars

(* ------------------------------- claims -------------------------------- *)

Pages == 0..(sim.num_pages - 1)

\* the pages the page table holds as resident
Resident == {p \in Pages : sim.page_table.entries[p].valid}

Returned_ == ret.called /\ ~ret.raised

\* C1: a translate call on an in-range page, after calls on in-range pages
\* only, reports a fault exactly when the page was not valid in the page
\* table right before the call, under every policy.
C1_FaultIffNotResident ==
    [][(ret'.called /\ ~ret'.raised)
          => (ret'.page_fault <=> ~is_valid(sim.page_table, ret'.page_number))]_vars

\* a fault on a page that was resident earlier and has been evicted since
C1_Witness ==
    /\ Returned_ /\ ret.page_fault
    /\ sim.page_table.entries[ret.page_number].access_count >= 2

\* C2: the number of resident pages never exceeds num_frames, whether counted
\* in the page table, in the policy's frames list or in page_to_frame.
C2_ResidentWithinFrames ==
    /\ Cardinality(Resident) <= sim.num_frames
    /\ Len(sim.algorithm.frames) <= sim.num_frames
    /\ Len(sim.page_to_frame) <= sim.num_frames

\* every frame is in use right after a page has been evicted to admit another
C2_Witness ==
    /\ Returned_ /\ ret.page_fault /\ ret.victim # None
    /\ ret.page_number \in Resident
    /\ Cardinality(Resident) = sim.num_frames
    /\ Len(sim.algorithm.frames) = sim.num_frames
    /\ Len(sim.page_to_frame) = sim.num_frames

\* C3: no frame is claimed by two resident pages, and the page table and
\* page_to_frame record the same frame for every resident page.
C3_FramesNotShared ==
    /\ DictKeys(sim.page_to_frame) = Resident
    /\ \A p \in Resident :
          sim.page_table.entries[p].frame_number = DictGet(sim.page_to_frame, p)
    /\ \A p, q \in Resident :
          p # q => sim.page_table.entries[p].frame_number
                       # sim.page_table.entries[q].frame_number
    /\ \A j, m \in 1..Len(sim.page_to_frame) :
          j # m => sim.page_to_frame[j].v # sim.page_to_frame[m].v

\* C4: every TLB entry names a page that the page table holds valid, and
\* caches the frame the page table gives for it.
C4_NoStaleTlbEntry ==
    \A j \in 1..Len(sim.tlb.cache) :
        LET e == sim.tlb.cache[j]
        IN  /\ EntryInRange(sim.page_table, e.k)
            /\ is_valid(sim.page_table, e.k)
            /\ get_frame_number(sim.page_table, e.k) = e.v

\* C5: after every translate call that returns, the page is valid in the
\* page table and the TLB maps it to the frame the page table records.
C5_TranslatedPageCached ==
    Returned_ =>
        /\ is_valid(sim.page_table, ret.page_number)
        /\ DictHas(sim.tlb.cache, ret.page_number)
        /\ DictGet(sim.tlb.cache, ret.page_number)
               = get_frame_number(sim.page_table, ret.page_number)

\* the set of pages a policy object tracks, or {None} when its structures
\* disagree with each other
Tracked(a) ==
    LET frames == ListSet(a.frames)
        others == CASE a.name = "FIFO"    -> {ListSet(a.queue)}
                    [] a.name = "LRU"     -> {DictKeys(a.access_times)}
                    [] a.name = "LFU"     -> {DictKeys(a.access_counts),
                                              DictKeys(a.access_times)}
                    [] a.name = "Optimal" -> {}
                    [] a.name = "Clock"   -> {DictKeys(a.reference_bits)}
    IN  IF \A o \in others : o = frames THEN frames ELSE {None}

\* C6: the pages tracked by the policy's structures are exactly the pages
\* valid in the page table.
C6_PolicyTracksResident == Tracked(sim.algorithm) = Resident

\* C7: on the same reference string and frame count, Optimal (constructed
\* with that string) faults no more often than FIFO, LRU, LFU or Clock.
C7_OptimalFaultsLeast ==
    (AllDone /\ Len(plan) = 2 /\ plan[1].algorithm_name = "Optimal")
        => results[1].page_faults <= results[2].page_faults

\* C8: under LRU a larger frame count never yields more faults on the same
\* reference string.
C8_LruMonotoneInFrames ==
    (AllDone /\ Len(plan) = 2
       /\ plan[1].algorithm_name = "LRU" /\ plan[2].algorithm_name = "LRU")
        => results[2].page_faults <= results[1].page_faults

\* C9: under LRU, after every translate call on a page the policy's recorded
\* last-access time of that page is the simulator's current logical clock.
C9_LruTimeIsClock ==
    (Returned_ /\ sim.algorithm_name = "LRU")
        => /\ DictHas(sim.algorithm.access_times, ret.page_number)
           /\ DictGet(sim.algorithm.access_times, ret.page_number) = sim.current_time

\* C10: replaying its own reference string under Optimal, the victim of an
\* eviction at trace position i is the resident page whose next occurrence
\* at or after position i is farthest; a page that does not occur again is
\* preferred, the first such page in frame order.
C10_VictimFarthestFromPosition ==
    [][(sim.algorithm_name = "Optimal" /\ i' = i + 1 /\ ret'.victim # None)
          => LET frames == sim.algorithm.frames
                 use(q) == NextUse(reference_string, i, q)
                 v      == ret'.victim
             IN  /\ ListHas(frames, v)
                 /\ \A j \in 1..Len(frames) : use(frames[j]) <= use(v)
                 /\ use(v) = Infinity
                       => \A j \in 1..(ListIndex(frames, v) - 1) :
                              use(frames[j]) # Infinity]_vars

\* C11: under Clock, after every translate call on a page (admitted by a
\* fault, or accessed on a TLB hit or a page-table hit) the policy's
\* reference bit of that page is 1.
C11_ClockBitSetOnAccess ==
    (Returned_ /\ sim.algorithm_name = "Clock")
        => /\ DictHas(sim.algorithm.reference_bits, ret.page_number)
           /\ DictGet(sim.algorithm.reference_bits, ret.page_number) = 1

\* C12: under LFU, the policy's access count of a page is 1 right after the
\* faulting call that admits it and grows by exactly 1 with each later
\* translate call on the page while it stays resident.
C12_LfuCountsReferences ==
    [][(sim.algorithm_name = "LFU" /\ ret'.called /\ ~ret'.raised)
          => /\ DictHas(sim'.algorithm.access_counts, ret'.page_number)
             /\ DictGet(sim'.algorithm.access_counts, ret'.page_number)
                   = IF ret'.page_fault
                     THEN 1
                     ELSE DictGet(sim.algorithm.access_counts, ret'.page_number) + 1]_vars

\* C18: a translate call whose page number lies outside [0, num_pages), above
\* or below, ends in an error: it returns no physical address.
C18_OutOfRangeRaises ==
    (ret.called /\ ret.page_number \notin Pages) => ret.raised

\* the last call on the algorithm object was an access_page that evicted
Evicted == out.op = "access_page" /\ out.page_fault /\ out.result # None

\* C13: LRU.access_page on a fault with the tracked set at capacity returns a
\* tracked page of minimum recorded last-access time, removes it from the
\* frames list and from access_times, and admits the new page with the
\* supplied time as its last-access time.
C13_LruEvictsOldest ==
    [][(/\ algorithm.name = "LRU"
        /\ out'.op = "access_page" /\ out'.page_fault
        /\ Len(algorithm.frames) >= algorithm.num_frames)
          => /\ ListHas(algorithm.frames, out'.result)
             /\ \A q \in ListSet(algorithm.frames) :
                    DictGet(algorithm.access_times, out'.result)
                        <= DictGet(algorithm.access_times, q)
             /\ ~ListHas(algorithm'.frames, out'.result)
             /\ ~DictHas(algorithm'.access_times, out'.result)
             /\ ListHas(algorithm'.frames, out'.page_number)
             /\ DictGet(algorithm'.access_times, out'.page_number) = out'.arg]_vars

\* an eviction from three frames after at least one earlier call was a hit,
\* the admitted page being the only one with the later time
C13_Witness ==
    /\ algorithm.name = "LRU" /\ Evicted
    /\ algorithm.num_frames = 3 /\ out.calls >= 5
    /\ out.arg = 2
    /\ \A q \in ListSet(algorithm.frames) \ {out.page_number} :
           DictGet(algorithm.access_times, q) = 1

\* C14: LFU.get_victim returns a tracked page of minimum access count, and
\* among the pages of that count one of smallest recorded last-access time.
C14_LfuVictimLeastUsed ==
    [][(/\ algorithm.name = "LFU"
        /\ \/ out'.op = "get_victim" /\ ~out'.raised
           \/ /\ out'.op = "access_page" /\ out'.page_fault
              /\ Len(algorithm.frames) >= algorithm.num_frames)
          => /\ ListHas(algorithm.frames, out'.result)
             /\ \A q \in ListSet(algorithm.frames) :
                    /\ DictGet(algorithm.access_counts, out'.result)
                           <= DictGet(algorithm.access_counts, q)
                    /\ DictGet(algorithm.access_counts, q)
                           = DictGet(algorithm.access_counts, out'.result)
                         => DictGet(algorithm.access_times, out'.result)
                                <= DictGet(algorithm.access_times, q)]_vars

\* get_victim has chosen between pages of equal count by their times: a page
\* of the same count and later time comes before the victim in the dict, and
\* a third page has a higher count
C14_Witness ==
    /\ algorithm.name = "LFU" /\ out.op = "get_victim" /\ ~out.raised
    /\ \E q \in ListSet(algorithm.frames) :
           /\ DictGet(algorithm.access_counts, q)
                  = DictGet(algorithm.access_counts, out.result)
           /\ DictGet(algorithm.access_times, q)
                  > DictGet(algorithm.access_times, out.result)
           /\ DictIdx(algorithm.access_counts, q)
                  < DictIdx(algorithm.access_counts, out.result)
    /\ \E q \in ListSet(algorithm.frames) :
           DictGet(algorithm.access_counts, q)
               > DictGet(algorithm.access_counts, out.result)

\* C15: Clock victim selection starts at the hand and moves circularly; every
\* inspected page with bit 1 has its bit cleared and is skipped, the victim
\* is the first inspected page with bit 0, the hand ends on the slot after
\* the victim's (modulo the frame count), and the bits of the pages not
\* inspected are unchanged.  (k counts slots from the hand; when every bit
\* is 1 the sweep comes round to the hand's slot, whose bit it has cleared.)
C15_ClockSweep ==
    [][(/\ algorithm.name = "Clock"
        /\ \/ out'.op = "get_victim" /\ ~out'.raised
           \/ /\ out'.op = "access_page" /\ out'.page_fault
              /\ Len(algorithm.frames) >= algorithm.num_frames)
          => LET n       == Len(algorithm.frames)
                 slot(k) == algorithm.frames[((algorithm.clock_hand + k) % n) + 1]
                 zeros   == {k \in 0..(n-1) :
                                DictGet(algorithm.reference_bits, slot(k)) = 0}
                 k0      == IF zeros = {} THEN n
                            ELSE CHOOSE k \in zeros : \A m \in zeros : k <= m
             IN  /\ out'.result = slot(k0)
                 /\ algorithm'.clock_hand = (algorithm.clock_hand + k0 + 1) % n
                 /\ \A k \in 0..(n-1) :
                        slot(k) # out'.result
                          => DictGet(algorithm'.reference_bits, slot(k))
                                = IF k < k0 THEN 0
                                  ELSE DictGet(algorithm.reference_bits, slot(k))
                 /\ out'.op = "get_victim"
                      => DictGet(algorithm'.reference_bits, out'.result) = 0]_vars

\* a sweep all the way round three frames: the first get_victim after three
\* admissions clears all three bits and takes the page under the hand
C15_Witness ==
    /\ algorithm.name = "Clock" /\ out.op = "get_victim" /\ ~out.raised
    /\ out.calls = 4 /\ Len(algorithm.frames) = 3
    /\ \A p \in ListSet(algorithm.frames) : DictGet(algorithm.reference_bits, p) = 0
    /\ out.result = algorithm.frames[1]
    /\ algorithm.clock_hand = 1

\* C16: under FIFO the victim is the page admitted earliest among the pages
\* tracked (the head of the queue), a reference that hits changes nothing,
\* an admission goes to the end of the queue, so that the queue lists the
\* tracked pages in admission order, and an evicted page is absent from the
\* frames list and from the queue.
C16_FifoAdmissionOrder ==
    [][(algorithm.name = "FIFO" /\ out'.op \in {"access_page", "get_victim"}
        /\ ~out'.raised)
          => /\ (out'.op = "get_victim" \/ ~out'.page_fault)
                   => algorithm' = algorithm
             /\ out'.op = "get_victim" => out'.result = algorithm.queue[1]
             /\ (out'.page_fault /\ out'.result = None)
                   => algorithm'.queue = Append(algorithm.queue, out'.page_number)
             /\ (out'.page_fault /\ out'.result # None)
                   => /\ out'.result = algorithm.queue[1]
                      /\ algorithm'.queue
                            = Append(Tail(algorithm.queue), out'.page_number)
                      /\ ~ListHas(algorithm'.frames, out'.result)
                      /\ ~ListHas(algorithm'.queue, out'.result)
             /\ ListSet(algorithm'.queue) = ListSet(algorithm'.frames)
             /\ Len(algorithm'.queue) = Cardinality(ListSet(algorithm'.queue))
             /\ Len(algorithm'.frames) = Len(algorithm'.queue)]_vars

\* an eviction from three frames that earlier calls (a hit or a get_victim
\* among them) have left in admission order
C16_Witness ==
    /\ algorithm.name = "FIFO" /\ Evicted
    /\ algorithm.num_frames = 3 /\ out.calls >= 5
    /\ algorithm.queue[3] = out.page_number

\* C17: for each policy, access_page returns a victim exactly when it reports
\* a fault and the tracked set held num_frames pages before the call; the
\* victim was tracked before the call, is not the accessed page and is not
\* tracked after it; the accessed page is tracked after every call; a call
\* without fault returns no victim and leaves the tracked set as it was.
C17_VictimOnlyAtCapacity ==
    [][out'.op = "access_page"
          => /\ (out'.result # None)
                   <=> (out'.page_fault
                          /\ Cardinality(Tracked(algorithm)) = algorithm.num_frames)
             /\ out'.result # None
                   => /\ out'.result \in Tracked(algorithm)
                      /\ out'.result # out'.page_number
                      /\ out'.result \notin Tracked(algorithm')
             /\ out'.page_number \in Tracked(algorithm')
             /\ ~out'.page_fault
                   => /\ out'.result = None
                      /\ Tracked(algorithm') = Tracked(algorithm)]_vars

\* an eviction under Optimal from two full frames
C17_Witness ==
    /\ algorithm.name = "Optimal" /\ Evicted
    /\ algorithm.num_frames = 2
    /\ out.page_number \in Tracked(algorithm)
    /\ out.result \notin Tracked(algorithm)
    /\ Cardinality(Tracked(algorithm)) = 2

\* C20: after any sequence of lookup, insert and invalidate calls on a TLB
\* of positive size, the number of entries is at most the size.
C20_TlbWithinSize == Len(buffer.cache) <= buffer.size

\* a full TLB of two entries right after the insert of a third page
C20_Witness ==
    /\ out.op = "insert" /\ out.calls = 3
    /\ buffer.size = 2 /\ Len(buffer.cache) = 2
    /\ buffer.cache[2].k = out.page_number
    /\ buffer.hits = 0 /\ buffer.misses = 0

\* C19: construction fails, and no simulator is created, when the policy is
\* Optimal and no reference string is supplied, or num_frames > num_pages,
\* or any of num_pages, num_frames, page_size, tlb_size is zero or negative.
C19_BadConfigRejected ==
    (out.op = "__init__"
       /\ \/ out.arg.algorithm_name = "Optimal" /\ out.arg.reference_string = <<>>
          \/ out.arg.num_frames > out.arg.num_pages
          \/ out.arg.num_pages <= 0 \/ out.arg.num_frames <= 0
          \/ out.arg.page_size <= 0 \/ out.arg.tlb_size <= 0)
        => (out.raised /\ sim = None)

\* C21: TLB.insert of an absent page into a full TLB evicts exactly one
\* entry, the one whose most recent use (lookup hit or insert) is oldest, and
\* puts the new entry in the most-recently-used position; into a TLB that
\* is not full it evicts nothing.  (The cache lists the entries from oldest
\* to most recent use: a lookup hit and an insert of a present page move
\* the entry to the end and keep the order of the others, a lookup miss
\* changes nothing, invalidate takes one entry out; the evicted entry is
\* the first of the list.)
C21_TlbEvictsLeastRecent ==
    [][out'.op \in {"lookup", "insert", "invalidate"}
          => LET c       == buffer.cache
                 page    == out'.page_number
                 others  == SelectSeq(c, LAMBDA e : e.k # page)
                 present == \E j \in 1..Len(c) : c[j].k = page
                 entry   == c[CHOOSE j \in 1..Len(c) : c[j].k = page]
                 new     == [k |-> page, v |-> out'.arg]
             IN  buffer'.cache =
                     CASE out'.op = "insert" /\ ~present /\ Len(c) >= buffer.size
                               -> Append(Tail(c), new)
                       [] out'.op = "insert" /\ ~present /\ Len(c) < buffer.size
                               -> Append(c, new)
                       [] out'.op \in {"insert", "lookup"} /\ present
                               -> Append(others, entry)
                       [] out'.op = "lookup" /\ ~present -> c
                       [] out'.op = "invalidate" -> others]_vars

\* an insert into a full TLB of two entries after a lookup hit has changed
\* which of the two is the least recently used
C21_Witness ==
    /\ out.op = "insert" /\ out.calls = 4
    /\ buffer.size = 2 /\ Len(buffer.cache) = 2
    /\ buffer.hits = 1 /\ buffer.misses = 0
    /\ buffer.cache[2].k = out.page_number
    /\ buffer.cache[1].k # out.page_number

\* C22: TLB.lookup on a cached page returns its frame, increments only the
\* hit counter and moves the entry to the most-recently-used position; on an
\* uncached page it returns nothing, increments only the miss counter and
\* leaves the entries and their order as they were.
C22_TlbLookupEffect ==
    [][out'.op = "lookup"
          => LET c      == buffer.cache
                 page   == out'.page_number
                 others == SelectSeq(c, LAMBDA e : e.k # page)
             IN  IF \E j \in 1..Len(c) : c[j].k = page
                 THEN LET entry == c[CHOOSE j \in 1..Len(c) : c[j].k = page]
                      IN  /\ out'.result = entry.v
                          /\ buffer' = [buffer EXCEPT !.hits = @ + 1,
                                                      !.cache = Append(others, entry)]
                 ELSE /\ out'.result = None
                      /\ buffer' = [buffer EXCEPT !.misses = @ + 1]]_vars

\* a lookup hit on the older of two entries
C22_Witness ==
    /\ out.op = "lookup" /\ out.result # None /\ out.calls = 3
    /\ buffer.hits = 1 /\ buffer.misses = 0
    /\ Len(buffer.cache) = 2
    /\ buffer.cache[2].k = out.page_number
    /\ buffer.cache[2].v = out.result

\* C23: for every translate call that returns, the physical address is
\* frame * page_size + (virtual_address mod page_size), frame being the frame
\* the page table binds to page virtual_address div page_size after the
\* call; so the offset is preserved and the address lies in a frame of
\* [0, num_frames).
C23_PhysicalAddress ==
    Returned_ =>
        /\ is_valid(sim.page_table, ret.virtual_address \div sim.page_size)
        /\ ret.physical_address
              = get_frame_number(sim.page_table, ret.virtual_address \div sim.page_size)
                    * sim.page_size
                + (ret.virtual_address % sim.page_size)
        /\ ret.physical_address % sim.page_size = ret.virtual_address % sim.page_size
        /\ ret.physical_address \div sim.page_size \in 0..(sim.num_frames - 1)

\* the access metadata of a page-table entry
Meta(e) == <<e.referenced, e.modified, e.last_access_time, e.access_count>>

\* C24: every translate call that returns, on page p, whether by TLB hit,
\* page-table hit or fault, sets p's referenced flag, sets its
\* last_access_time to the logical clock, raises its access_count by exactly
\* 1 and sets modified when is_write (leaving it as it was otherwise); the
\* metadata of every other page is unchanged.
C24_AccessRecorded ==
    [][(ret'.called /\ ~ret'.raised)
          => \A q \in Pages :
                IF q = ret'.page_number
                THEN Meta(sim'.page_table.entries[q])
                        = <<TRUE,
                            sim.page_table.entries[q].modified \/ ret'.is_write,
                            sim'.current_time,
                            sim.page_table.entries[q].access_count + 1>>
                ELSE Meta(sim'.page_table.entries[q])
                        = Meta(sim.page_table.entries[q])]_vars

\* C25: evicting a page and loading it again leave its access_count,
\* referenced, modified and last_access_time untouched (only valid and
\* frame_number change), so no translate call lowers a page's access_count
\* and a reload does not reset it: the count after the call that reloads
\* the page is the count it had when evicted, plus 1 for that call.
C25_MetadataSurvivesEviction ==
    [][ret'.called
          => \A q \in Pages :
                /\ sim'.page_table.entries[q].access_count
                      >= sim.page_table.entries[q].access_count
                /\ (sim.page_table.entries[q].valid /\ ~sim'.page_table.entries[q].valid)
                      => Meta(sim'.page_table.entries[q]) = Meta(sim.page_table.entries[q])
                /\ (~sim.page_table.entries[q].valid /\ sim'.page_table.entries[q].valid)
                      => /\ sim'.page_table.entries[q].access_count
                               = sim.page_table.entries[q].access_count + 1
                         /\ sim'.page_table.entries[q].modified
                               = (sim.page_table.entries[q].modified \/ ret'.is_write)]_vars

\* a page has just been loaded again after an eviction, and the page evicted
\* to make room keeps the count of its own accesses
C25_Witness ==
    /\ Returned_ /\ ret.page_fault /\ ret.victim \in Pages /\ ret.page_number \in Pages
    /\ sim.page_table.entries[ret.page_number].valid
    /\ sim.page_table.entries[ret.page_number].access_count >= 2
    /\ ~sim.page_table.entries[ret.victim].valid
    /\ sim.page_table.entries[ret.victim].access_count >= 1

\* C26: in every reachable state, every page-table entry has valid true
\* exactly when its frame_number is set.
C26_ValidIffFrameSet ==
    \A q \in Pages :
        sim.page_table.entries[q].valid <=> sim.page_table.entries[q].frame_number # None

\* one page is resident and another has been resident and was evicted
C26_Witness ==
    \E q, q2 \in Pages :
        /\ sim.page_table.entries[q].valid
        /\ sim.page_table.entries[q].frame_number \in 0..(sim.num_frames - 1)
        /\ ~sim.page_table.entries[q2].valid
        /\ sim.page_table.entries[q2].frame_number = None
        /\ sim.page_table.entries[q2].access_count > 0

\* C27: each translate call that returns raises memory_accesses and
\* current_time by exactly 1 each and page_faults by 1 when it reports a
\* fault, by 0 otherwise; the logical clock always equals the access count,
\* and page_faults counts the calls that returned a fault (a call that
\* raises leaves it as it was).
C27_CountersStep ==
    [][ret'.called
          => /\ ~ret'.raised
                   => /\ sim'.memory_accesses = sim.memory_accesses + 1
                      /\ sim'.current_time = sim.current_time + 1
                      /\ sim'.page_faults
                            = sim.page_faults + IF ret'.page_fault THEN 1 ELSE 0
             /\ ret'.raised => sim'.page_faults = sim.page_faults
             /\ sim'.current_time = sim'.memory_accesses]_vars

\* a fault after at least one earlier fault and one call that was no fault
C27_Witness ==
    /\ Returned_ /\ ret.page_fault
    /\ sim.page_faults >= 2
    /\ sim.memory_accesses > sim.page_faults
    /\ sim.current_time = sim.memory_accesses

\* the distinct pages among the first n entries of the reference string
Distinct(n) == {reference_string[j] : j \in 1..n}

\* C28: for every policy, on a reference string with at most num_frames
\* distinct pages the run faults exactly once per distinct page, at the
\* page's first occurrence, never selects a victim, and every later
\* reference is no fault.
C28_EnoughFramesFirstTouchOnly ==
    [][(i' = i + 1 /\ Cardinality(Distinct(Len(reference_string))) <= sim.num_frames)
          => /\ ~ret'.raised
             /\ ret'.page_fault <=> reference_string[i + 1] \notin Distinct(i)
             /\ ret'.victim = None
             /\ sim'.page_faults = Cardinality(Distinct(i + 1))]_vars

\* a finished run over two distinct pages in exactly two frames, with
\* repeated references
C28_Witness ==
    /\ RunDone /\ ret.called
    /\ sim.num_frames = 2
    /\ Cardinality(Distinct(Len(reference_string))) = 2
    /\ Len(reference_string) = 5
    /\ sim.page_faults = 2

\* C29: on a reference string whose distinct pages number at most the TLB
\* size and num_frames, every reference to a page after its first is a TLB
\* hit; at the end of the run tlb_hits is the trace length minus the number
\* of distinct pages and tlb_misses is the number of distinct pages.
C29_TlbHitsAfterFirstTouch ==
    /\ (/\ Cardinality(Distinct(Len(reference_string))) <= sim.tlb.size
        /\ Cardinality(Distinct(Len(reference_string))) <= sim.num_frames)
          => /\ sim.tlb.hits = i - Cardinality(Distinct(i))
             /\ sim.tlb.misses = Cardinality(Distinct(i))
             /\ (ret.called /\ i > 0)
                   => (ret.tlb_hit <=> reference_string[i] \in Distinct(i - 1))
    /\ \A n \in 1..Len(results) :
          (/\ Cardinality(Distinct(Len(reference_string))) <= plan[n].tlb_size
           /\ Cardinality(Distinct(Len(reference_string))) <= plan[n].num_frames)
             => /\ results[n].tlb_hits
                      = Len(reference_string) - Cardinality(Distinct(Len(reference_string)))
                /\ results[n].tlb_misses = Cardinality(Distinct(Len(reference_string)))

\* the statistics of a finished run over three distinct pages with repeats,
\* in the test configuration (three frames, TLB of four)
C29_Witness ==
    /\ AllDone /\ Len(plan) = 1
    /\ Cardinality(Distinct(Len(reference_string))) = 3
    /\ Len(reference_string) = 5
    /\ results[1].tlb_hits = 2 /\ results[1].tlb_misses = 3

\* C30: the reference string [1,2,3,4,1,2,5,1,2,3,4,5] run through a
\* simulator with 3 frames, 10 pages, TLB size 4 and FIFO yields exactly
\* 9 page faults.
C30_FifoNineFaults ==
    (AllDone /\ plan = <<TestConfig("FIFO")>> /\ reference_string = TestTrace)
        => results[1].page_faults = 9

\* the statistics of that run
C30_Witness ==
    /\ AllDone /\ plan = <<TestConfig("FIFO")>> /\ reference_string = TestTrace
    /\ results[1].algorithm = "FIFO"
    /\ results[1].total_accesses = 12

\* the pages of a policy object in the order a FIFO queue would hold them:
\* LRU and LFU by their stored time, Clock from the hand round the array
\* once the array is full
Rank(a, p) ==
    1 + Cardinality({q \in ListSet(a.frames) :
                        DictGet(a.access_times, q) < DictGet(a.access_times, p)})

QueueOrder(a) ==
    IF a.name = "Clock"
    THEN IF Len(a.frames) < a.num_frames
         THEN a.frames
         ELSE [j \in 1..Len(a.frames) |->
                  a.frames[((a.clock_hand + j - 1) % Len(a.frames)) + 1]]
    ELSE [j \in 1..Len(a.frames) |->
             CHOOSE p \in ListSet(a.frames) : Rank(a, p) = j]

\* the FIFO object that stands for a policy object
AsFifo(a) ==
    [PageReplacementAlgorithm("FIFO", a.num_frames, <<>>) EXCEPT
        !.frames = QueueOrder(a), !.queue = QueueOrder(a)]

\* the simulator with a FIFO policy in place of its own
UnderFifo(s) == [s EXCEPT !.algorithm = AsFifo(@), !.algorithm_name = "FIFO"]

\* f, what the FIFO simulator gave on a reference, is what this one gave
SameAsFifo(f) ==
    /\ f.raised = ret'.raised
    /\ f.page_fault = ret'.page_fault
    /\ f.tlb_hit = ret'.tlb_hit
    /\ f.victim = ret'.victim
    /\ f.physical_address = ret'.physical_address
    /\ f.sim = UnderFifo(sim')

Owners(s, f) ==
    {p \in 0..(s.num_pages - 1) :
        s.page_table.entries[p].valid /\ s.page_table.entries[p].frame_number = f}

\* every frame is free or owned by exactly one resident page, never both
FramesAccounted(s) ==
    /\ ListSet(s.free_frames) \subseteq 0..(s.num_frames - 1)
    /\ Cardinality(ListSet(s.free_frames)) = Len(s.free_frames)
    /\ Len(s.free_frames) + Len(s.page_to_frame) = s.num_frames
    /\ Len(s.free_frames)
         + Cardinality({p \in 0..(s.num_pages - 1) : s.page_table.entries[p].valid})
         = s.num_frames
    /\ \A f \in 0..(s.num_frames - 1) :
          IF ListHas(s.free_frames, f)
          THEN Owners(s, f) = {}
          ELSE Cardinality(Owners(s, f)) = 1

\* C32: from construction on and after every translate call each frame is
\* free or owned by exactly one resident page and free pool + resident pages
\* = num_frames; a call raises only for a page beyond the table (never for a
\* pop from an empty pool); a fault with a victim happens with the pool empty
\* and gives the page the victim's frame; a fault without one takes the
\* page's frame out of the pool; a hit leaves the pool alone.
C32_FrameAccounting ==
    FramesAccounted(sim) /\
    [][sim'.memory_accesses = sim.memory_accesses + 1 =>
       /\ FramesAccounted(sim')
       /\ ret'.raised => ~EntryInRange(sim.page_table, ret'.page_number)
       /\ (~ret'.raised /\ ret'.page_fault /\ ret'.victim # None) =>
             /\ sim.free_frames = <<>>
             /\ sim'.free_frames = <<>>
             /\ get_frame_number(sim'.page_table, ret'.page_number)
                  = get_frame_number(sim.page_table, ret'.victim)
       /\ (~ret'.raised /\ ret'.page_fault /\ ret'.victim = None) =>
             /\ sim.free_frames # <<>>
             /\ ListHas(sim.free_frames,
                        get_frame_number(sim'.page_table, ret'.page_number))
             /\ ListSet(sim'.free_frames)
                  = ListSet(sim.free_frames)
                      \ {get_frame_number(sim'.page_table, ret'.page_number)}
       /\ (~ret'.raised /\ ~ret'.page_fault) => sim'.free_frames = sim.free_frames
      ]_vars

\* two frames, both owned, right after a fault that evicted a page
C32_Witness ==
    /\ Returned_ /\ ret.page_fault /\ ret.victim # None
    /\ sim.num_frames = 2
    /\ sim.free_frames = <<>>
    /\ Cardinality(Resident) = 2
    /\ Owners(sim, 0) # Owners(sim, 1)

\* C33: a translate call that returns without a fault leaves the valid flag
\* and frame of every page-table entry, page_to_frame, the free pool, the
\* fault counter and the policy object as they were, and of the page table
\* changes nothing but the entry of the page that was accessed.
C33_HitChangesOnlyAccessState ==
    [][(sim'.memory_accesses = sim.memory_accesses + 1
          /\ ~ret'.raised /\ ~ret'.page_fault) =>
       /\ \A p \in Pages :
             /\ sim'.page_table.entries[p].valid = sim.page_table.entries[p].valid
             /\ sim'.page_table.entries[p].frame_number
                  = sim.page_table.entries[p].frame_number
       /\ sim'.page_to_frame = sim.page_to_frame
       /\ sim'.free_frames = sim.free_frames
       /\ sim'.page_faults = sim.page_faults
       /\ sim'.algorithm = sim.algorithm
       /\ \A p \in Pages \ {ret'.page_number} :
             sim'.page_table.entries[p] = sim.page_table.entries[p]
      ]_vars

\* C34: when Clock's access_page evicts, the new page is written into the
\* slot of the frames array that held the victim, every other slot keeps its
\* page and the array keeps its length num_frames; when it admits a page
\* with a frame free, the page is appended at the end of the array and the
\* hand stays where it was.
C34_ClockReusesVictimSlot ==
    [][(algorithm.name = "Clock" /\ out'.op = "access_page" /\ out'.page_fault)
          => IF out'.result # None
             THEN /\ Len(algorithm.frames) = algorithm.num_frames
                  /\ Len(algorithm'.frames) = algorithm.num_frames
                  /\ \E idx \in 1..Len(algorithm.frames) :
                        /\ algorithm.frames[idx] = out'.result
                        /\ algorithm'.frames[idx] = out'.page_number
                        /\ \A j \in 1..Len(algorithm.frames) \ {idx} :
                              algorithm'.frames[j] = algorithm.frames[j]
             ELSE /\ Len(algorithm.frames) < algorithm.num_frames
                  /\ algorithm'.frames = Append(algorithm.frames, out'.page_number)
                  /\ algorithm'.clock_hand = algorithm.clock_hand]_vars

\* three frames, the victim taken from the middle slot: the new page sits in
\* the middle slot, between the two pages that stayed
C34_Witness ==
    /\ algorithm.name = "Clock" /\ algorithm.num_frames = 3
    /\ out.op = "access_page" /\ out.page_fault /\ out.result # None
    /\ Len(algorithm.frames) = 3
    /\ algorithm.frames[2] = out.page_number
    /\ algorithm.clock_hand = 2

\* C35: TLB.insert(page, frame) for a page that is already cached moves its
\* entry to the most-recently-used position and does nothing else: the
\* other entries keep their order, nothing is evicted, the number of entries
\* and the hit and miss counters stay, and the page keeps the frame it was
\* cached with, whatever the frame argument.
C35_TlbReinsertOnlyPromotes ==
    [][(out'.op = "insert" /\ DictHas(buffer.cache, out'.page_number))
          => /\ buffer'.cache
                  = Append(SelectSeq(buffer.cache,
                                     LAMBDA e : e.k # out'.page_number),
                           [k |-> out'.page_number,
                            v |-> DictGet(buffer.cache, out'.page_number)])
             /\ Len(buffer'.cache) = Len(buffer.cache)
             /\ DictKeys(buffer'.cache) = DictKeys(buffer.cache)
             /\ buffer'.hits = buffer.hits
             /\ buffer'.misses = buffer.misses
             /\ buffer'.size = buffer.size]_vars

\* a full TLB of two entries after an insert of a cached page with a frame
\* other than the cached one: the page is the newest entry and holds a frame
\* that is not the argument, the one it had
C35_Witness ==
    /\ out.op = "insert"
    /\ buffer.size = 2 /\ Len(buffer.cache) = 2
    /\ buffer.cache[2].k = out.page_number
    /\ buffer.cache[2].v # out.arg

\* sw, the iterations of get_victim's loop from a full array: the loop
\* returns, having inspected at most num_frames + 1 slots, every one of them
\* and the hand it leaves within 0..num_frames-1
SweepBounded(a, sw) ==
    /\ sw.returned
    /\ Len(sw.inspected) <= a.num_frames + 1
    /\ \A j \in 1..Len(sw.inspected) : sw.inspected[j] \in 0..(a.num_frames - 1)
    /\ sw.clock_hand \in 0..(a.num_frames - 1)

\* sw against a get_victim that has run: the victim is the page of the last
\* slot inspected and the hand is where the loop left it
SweepTaken(a, sw) ==
    /\ out'.result = a.frames[sw.inspected[Len(sw.inspected)] + 1]
    /\ algorithm'.clock_hand = sw.clock_hand

\* C36: from every state of a Clock object whose frames array is full (every
\* page in it having a reference bit), get_victim's loop returns after
\* inspecting at most num_frames + 1 slots, with the hand within
\* [0, num_frames) at every inspection and at the end; and when get_victim
\* runs, what it returns and the hand it leaves are those of that loop.
C36_ClockSweepTerminates ==
    [][(/\ algorithm.name = "Clock"
        /\ Len(algorithm.frames) = algorithm.num_frames
        /\ ListSet(algorithm.frames) \subseteq DictKeys(algorithm.reference_bits))
          => /\ SweepBounded(algorithm,
                             Clock_sweep(algorithm, SweepFuel(algorithm), <<>>))
             /\ (\/ out'.op = "get_victim"
                 \/ out'.op = "access_page" /\ out'.page_fault)
                   => SweepTaken(algorithm,
                                 Clock_sweep(algorithm, SweepFuel(algorithm), <<>>))
      ]_vars

\* the first get_victim after two admissions into two frames: both bits
\* were set, so the loop went all the way round (three slots inspected),
\* cleared both and took the page under the hand
C36_Witness ==
    /\ algorithm.name = "Clock" /\ algorithm.num_frames = 2
    /\ Len(algorithm.frames) = 2
    /\ out.op = "get_victim" /\ ~out.raised /\ out.calls = 3
    /\ out.result = algorithm.frames[1]
    /\ algorithm.clock_hand = 1
    /\ \A p \in ListSet(algorithm.frames) : DictGet(algorithm.reference_bits, p) = 0

\* C37: a translate call that raises because its page number is out of range
\* leaves the simulator exactly as it was before the call: memory_accesses,
\* current_time, page_faults, the TLB with its counters, the page table and
\* the policy object.
C37_RaiseLeavesStateAlone ==
    [][(ret'.raised /\ ~EntryInRange(sim.page_table, ret'.page_number))
          => sim' = sim]_vars

\* the sum of access_count over the entries 0..p of the page table
RECURSIVE AccessCountUpTo(_, _)
AccessCountUpTo(pt, p) ==
    IF p < 0 THEN 0
    ELSE pt.entries[p].access_count + AccessCountUpTo(pt, p - 1)

\* C38: after any sequence of translate calls that all returned, the TLB's
\* hits and misses add up to memory_accesses, page_faults <= TLB misses <=
\* memory_accesses, the last call did not report both a TLB hit and a page
\* fault, and the access_count fields of the page table add up to
\* memory_accesses.
C38_CounterIdentities ==
    /\ ~ret.raised
    /\ sim.tlb.hits + sim.tlb.misses = sim.memory_accesses
    /\ sim.page_faults <= sim.tlb.misses
    /\ sim.tlb.misses <= sim.memory_accesses
    /\ ~(ret.tlb_hit /\ ret.page_fault)
    /\ AccessCountUpTo(sim.page_table, sim.num_pages - 1) = sim.memory_accesses

\* four calls, among them a fault, a page-table hit and a TLB hit, the last
\* one on a negative page number
C38_Witness ==
    /\ Returned_ /\ ret.page_number < 0 /\ ret.tlb_hit
    /\ sim.memory_accesses = 4
    /\ sim.page_faults = 2 /\ sim.tlb.misses = 3 /\ sim.tlb.hits = 1
    /\ \E p \in Pages : sim.page_table.entries[p].access_count = 3

=============================================================================
